---- MODULE Spec2Model ----
(***************************************************************************)
(* Arduino Animated OLED Generator: oled_core.py and streamlit_app.py.     *)
(*                                                                         *)
(* The module holds one specification per component:                       *)
(*   SpecPack    image_to_1bpp_horizontal_bytes (the bit packer)           *)
(*   SpecCrop    center_crop (the geometry normalizer)                     *)
(*   SpecSort    sort_uploads / find_first_int (frame ordering)            *)
(*   SpecIdent   safe_c_identifier and the array name of generate_bitmaps_h*)
(*   SpecGen     one "Generate Code" request of streamlit_app.py           *)
(*   SpecSketch  the setup()/loop() firmware that generate_sketch_ino emits*)
(* Every specification leaves the other components' variables at rest.     *)
(*                                                                         *)
(* An image is a record [w, h, px] with px a function from <<x, y>>        *)
(* (0 <= x < w, 0 <= y < h) to an intensity 0..255 (PIL mode "L").         *)
(* A string is a sequence of one-character strings.                        *)
(***************************************************************************)
EXTENDS Integers, Sequences, FiniteSets, TLC

VARIABLES
    \* image_to_1bpp_horizontal_bytes
    pk_im, pk_w, pk_h, pk_threshold, pk_out, pk_pc,
    \* center_crop: the source, the target size, the result of one call and
    \* of a second call on that result
    cc_im, cc_target_w, cc_target_h, cc_out, cc_out2, cc_pc,
    \* sort_uploads: the uploaded files in upload order and the result
    so_files, so_sorted, so_pc,
    \* the array name of generate_bitmaps_h: a path, a frame index, the name
    id_path, id_idx, id_ident, id_pc,
    \* the emitted sketch on the board: frameCount of bitmaps.h, the timing
    \* section of sketch.ino, millis(), the sketch's globals lastFrameTime and
    \* currentFrame, the frame on the display (-1: none), the number of
    \* drawBitmap calls so far, and where the firmware is
    sk_frameCount, sk_timing, sk_millis, sk_lastFrameTime, sk_currentFrame,
    sk_shown, sk_draws, sk_pc,
    \* one run of streamlit_app.py with a click on "Generate Code": the
    \* widgets' values (uploads, resolution W x H, timing, mismatch mode, the
    \* delay the user wants for each upload), the script's variables, what
    \* st.error/st.write reported, the downloads offered, and where the run is
    g_uploads, g_W, g_H, g_uniform_timing, g_uniform_delay_ms, g_mismatch_mode,
    g_wanted, g_frame_files, g_per_frame_delays, g_loaded_imgs, g_mismatches,
    g_reported, g_frame_bytes, g_delays, g_bitmaps_h, g_sketch_ino,
    g_downloads, g_pc

pk_vars == <<pk_im, pk_w, pk_h, pk_threshold, pk_out, pk_pc>>
cc_vars == <<cc_im, cc_target_w, cc_target_h, cc_out, cc_out2, cc_pc>>
so_vars == <<so_files, so_sorted, so_pc>>
id_vars == <<id_path, id_idx, id_ident, id_pc>>
sk_vars == <<sk_frameCount, sk_timing, sk_millis, sk_lastFrameTime,
             sk_currentFrame, sk_shown, sk_draws, sk_pc>>
g_inputs == <<g_uploads, g_W, g_H, g_uniform_timing, g_uniform_delay_ms,
              g_mismatch_mode>>
g_vars == <<g_inputs, g_wanted, g_frame_files, g_per_frame_delays,
            g_loaded_imgs, g_mismatches, g_reported, g_frame_bytes, g_delays,
            g_bitmaps_h, g_sketch_ino, g_downloads, g_pc>>

vars == <<pk_vars, cc_vars, so_vars, id_vars, sk_vars, g_vars>>

----------------------------------------------------------------------------
(* Bounds and input families                                               *)

\* largest frame width / height the bit packer is run on
MaxW == 9
MaxH == 2
\* most pixels of a packer input that differ from the background
MaxLit == 2

NoImage == [w |-> 0, h |-> 0, px |-> <<>>]

Coords(w, h) == (0 .. w - 1) \X (0 .. h - 1)

\* largest source side and largest target side center_crop is run on
MaxSrc == 3
MaxTarget == 3

\* most files of one upload handed to sort_uploads
MaxSortFiles == 3

\* longest path handed to safe_c_identifier
MaxPathLen == 4

\* most frames of an emitted sketch, the last value of millis(), the largest
\* advance of millis() between two looks at it, and the most drawBitmap
\* calls of one run
MaxSketchFrames == 3
MaxMillis == 4
MaxTick == 2
MaxDraws == 5

\* a generation request: the selected resolution is GenW x GenH or
\* GenW x (GenH \div 2), standing for 128x64 and 128x32, and at most
\* MaxGenFrames files are uploaded
GenW == 9
GenH == 7
MaxGenFrames == 2

\* thresholds at both ends of the intensity range, at THRESHOLD and next to it
Thresholds == {0, 128, 129, 256}

\* the images of size w x h that are c[1] everywhere but on at most MaxLit
\* pixels, which are c[2]: intensities 127 and 128 lie on both sides of
\* THRESHOLD
LitImages(w, h) ==
    { [w |-> w, h |-> h,
       px |-> [p \in Coords(w, h) |-> IF p \in L THEN c[2] ELSE c[1]]] :
         L \in UNION { { { f[i] : i \in 1 .. k } : f \in [1 .. k -> Coords(w, h)] } :
                        k \in 0 .. MaxLit },
         c \in { <<0, 128>>, <<127, 255>>, <<128, 127>> } }

\* an image of nonzero intensities, each pixel with an intensity of its own
\* (for w * h <= 255), so that a moved pixel and a padded pixel both show
\* a decoded BMP: intensities on both sides of THRESHOLD, set by the seed
GenImage(w, h, seed) ==
    [w |-> w, h |-> h,
     px |-> [p \in Coords(w, h) |-> (seed + 37 * (p[1] + p[2] * w)) % 256]]

Seeds == {0, 100}
NumberedImage(w, h, seed) ==
    [w |-> w, h |-> h,
     px |-> [p \in Coords(w, h) |-> 1 + ((seed + p[1] + p[2] * w) % 255)]]

----------------------------------------------------------------------------
(* Strings: sequences of one-character strings over printable ASCII        *)

\* the characters of code 32 .. 126 in code order (the double quote, the
\* backslash and the backtick under a name)
Ascii ==
    << " ", "!", "<quote>", "#", "$", "%", "&", "'", "(", ")", "*", "+", ",", "-",
       ".", "/", "0", "1", "2", "3", "4", "5", "6", "7", "8", "9", ":", ";",
       "<", "=", ">", "?", "@", "A", "B", "C", "D", "E", "F", "G", "H", "I",
       "J", "K", "L", "M", "N", "O", "P", "Q", "R", "S", "T", "U", "V", "W",
       "X", "Y", "Z", "[", "<backslash>", "]", "^", "_", "<backtick>", "a", "b", "c", "d", "e",
       "f", "g", "h", "i", "j", "k", "l", "m", "n", "o", "p", "q", "r", "s",
       "t", "u", "v", "w", "x", "y", "z", "{", "|", "}", "~" >>

Ord(c) == 31 + (CHOOSE i \in 1 .. Len(Ascii) : Ascii[i] = c)
Chr(n) == Ascii[n - 31]

IsDigit(c) == Ord(c) \in 48 .. 57
IsUpper(c) == Ord(c) \in 65 .. 90
IsLower(c) == Ord(c) \in 97 .. 122

\* str.lower()
Lower(s) == [i \in 1 .. Len(s) |-> IF IsUpper(s[i]) THEN Chr(Ord(s[i]) + 32) ELSE s[i]]

\* s < t for two sequences of integers, as Python compares sequences: at the
\* first index where they differ, or the shorter one when it is a prefix
RECURSIVE SeqLess(_, _)
SeqLess(s, t) ==
    IF t = <<>> THEN FALSE
    ELSE IF s = <<>> THEN TRUE
    ELSE IF s[1] # t[1] THEN s[1] < t[1]
    ELSE SeqLess(Tail(s), Tail(t))

\* s < t for two strings (by code point)
StrLess(s, t) ==
    SeqLess([i \in 1 .. Len(s) |-> Ord(s[i])], [i \in 1 .. Len(t) |-> Ord(t[i])])

RECURSIVE Zeros(_)
Zeros(n) == IF n = 0 THEN <<>> ELSE <<"0">> \o Zeros(n - 1)

(* Python integers are unbounded and a file name may hold a digit run of   *)
(* any length, while TLC's integers are 32 bits wide. An integer n >= 0 is *)
(* therefore held as its decimal digits, most significant first, without   *)
(* leading zeros (0 is <<0>>).                                             *)

\* int(run) for a non-empty run of digit characters
RECURSIVE IntOfDigits(_)
IntOfDigits(run) ==
    IF Len(run) > 1 /\ run[1] = "0"
    THEN IntOfDigits(Tail(run))
    ELSE [i \in 1 .. Len(run) |-> Ord(run[i]) - 48]

\* a < b for two integers held as digits
IntLess(a, b) == Len(a) < Len(b) \/ (Len(a) = Len(b) /\ SeqLess(a, b))

----------------------------------------------------------------------------
(* oled_core.py                                                            *)

\* Optional[int]: None
None == <<>>

\* re.search(r"(\d+)", s): the leftmost digit and the maximal run from it
find_first_int(s) ==
    IF \A i \in 1 .. Len(s) : ~IsDigit(s[i])
    THEN None
    ELSE LET first == CHOOSE i \in 1 .. Len(s) :
                         IsDigit(s[i]) /\ \A j \in 1 .. i - 1 : ~IsDigit(s[j])
             last  == CHOOSE i \in first .. Len(s) :
                         /\ \A j \in first .. i : IsDigit(s[j])
                         /\ (i = Len(s) \/ ~IsDigit(s[i + 1]))
         IN  IntOfDigits(SubSeq(s, first, last))

\* s.rfind(c), counted from 1: 0 when c is not in s
LastIndexOf(s, c) ==
    IF \E i \in 1 .. Len(s) : s[i] = c
    THEN CHOOSE i \in 1 .. Len(s) : s[i] = c /\ \A j \in i + 1 .. Len(s) : s[j] # c
    ELSE 0

\* os.path.basename(p): what follows the last "/"
basename(p) == SubSeq(p, LastIndexOf(p, "/") + 1, Len(p))

\* os.path.splitext(p)[0]: p up to its last dot, when that dot lies behind
\* the last "/" and behind a character of the name that is not a dot
splitext_root(p) ==
    LET sepIndex == LastIndexOf(p, "/")
        dotIndex == LastIndexOf(p, ".")
    IN  IF dotIndex > sepIndex /\ \E k \in sepIndex + 1 .. dotIndex - 1 : p[k] # "."
        THEN SubSeq(p, 1, dotIndex - 1)
        ELSE p

\* the character class [A-Za-z0-9_]
IsWordChar(c) == IsUpper(c) \/ IsLower(c) \/ IsDigit(c) \/ c = "_"

\* re.sub(r"[^A-Za-z0-9_]+", "_", s): one "_" for each maximal run
RECURSIVE SubNonWord(_, _)
SubNonWord(s, in_run) ==
    IF s = <<>> THEN <<>>
    ELSE IF IsWordChar(s[1])
         THEN <<s[1]>> \o SubNonWord(Tail(s), FALSE)
         ELSE (IF in_run THEN <<>> ELSE <<"_">>) \o SubNonWord(Tail(s), TRUE)

\* the sanitizer without the prefix for a leading digit
safe_c_identifier_no_prefix(name) ==
    SubNonWord(splitext_root(basename(name)), FALSE)

safe_c_identifier(name) ==
    LET base == SubNonWord(splitext_root(basename(name)), FALSE)
    IN  IF base # <<>> /\ IsDigit(base[1])
        THEN <<"i", "m", "g", "_">> \o base
        ELSE base

\* str(n) for n >= 0
RECURSIVE DecimalOf(_)
DecimalOf(n) ==
    IF n < 10 THEN <<Chr(48 + n)>> ELSE Append(DecimalOf(n \div 10), Chr(48 + (n % 10)))

\* f"{n:03d}": zeros in front up to a width of 3
Format03d(n) ==
    LET d == DecimalOf(n)
    IN  IF Len(d) < 3 THEN Zeros(3 - Len(d)) \o d ELSE d

\* int(text) for the decimal text of an integer >= 0
RECURSIVE ParseDecimal(_)
ParseDecimal(text) ==
    IF text = <<>> THEN 0
    ELSE 10 * ParseDecimal(SubSeq(text, 1, Len(text) - 1)) + (Ord(text[Len(text)]) - 48)

\* generate_sketch_ino, the "// timing" section: the text of the initializer
\* of frameDelayMs (uniform timing) or of each entry of frameDelaysMs
sketch_timing(uniform_timing, uniform_delay_ms, per_frame_delays) ==
    IF uniform_timing
    THEN LET d == IF uniform_delay_ms <= 0 THEN 1 ELSE uniform_delay_ms
         IN  [uniform |-> TRUE, frameDelayMs |-> DecimalOf(d),
              frameDelaysMs |-> <<>>]
    ELSE [uniform |-> FALSE, frameDelayMs |-> <<>>,
          frameDelaysMs |-> [i \in 1 .. Len(per_frame_delays) |->
                                DecimalOf(per_frame_delays[i])]]

\* a uint16_t initialized from a decimal literal
Uint16Of(text) == ParseDecimal(text) % 65536

\* loop(): uint16_t waitMs = frameDelayMs;  or  = frameDelaysMs[currentFrame];
WaitMs(timing, currentFrame) ==
    IF timing.uniform
    THEN Uint16Of(timing.frameDelayMs)
    ELSE Uint16Of(timing.frameDelaysMs[currentFrame + 1])

\* generate_bitmaps_h: ident = f"{safe_c_identifier(path)}_{idx:03d}"
FrameIdent(path, idx) == safe_c_identifier(path) \o <<"_">> \o Format03d(idx)

Max(a, b) == IF a >= b THEN a ELSE b
Min(a, b) == IF a <= b THEN a ELSE b

\* im.crop((left, top, right, bottom)) for a box inside the image
Crop(im, left, top, right, bottom) ==
    [w |-> right - left, h |-> bottom - top,
     px |-> [p \in Coords(right - left, bottom - top) |->
                im.px[<<p[1] + left, p[2] + top>>]]]

\* Image.new("L", (w, h), color)
NewImage(w, h, color) ==
    [w |-> w, h |-> h, px |-> [p \in Coords(w, h) |-> color]]

\* out.paste(src, (ox, oy)) for a source that fits inside the canvas
Paste(canvas, src, ox, oy) ==
    [canvas EXCEPT !.px =
        [p \in DOMAIN canvas.px |->
            IF /\ p[1] - ox \in 0 .. src.w - 1
               /\ p[2] - oy \in 0 .. src.h - 1
            THEN src.px[<<p[1] - ox, p[2] - oy>>]
            ELSE canvas.px[p]]]

\* the crop anchored at the centre, the paste at the top-left corner
center_crop_paste_at_origin(im, target_w, target_h) ==
    LET left    == Max(0, (im.w - target_w) \div 2)
        top     == Max(0, (im.h - target_h) \div 2)
        cropped == Crop(im, left, top, left + Min(target_w, im.w),
                        top + Min(target_h, im.h))
    IN  IF <<cropped.w, cropped.h>> # <<target_w, target_h>>
        THEN Paste(NewImage(target_w, target_h, 0), cropped, 0, 0)
        ELSE cropped

center_crop(im, target_w, target_h) ==
    LET w       == im.w
        h       == im.h
        left    == Max(0, (w - target_w) \div 2)
        top     == Max(0, (h - target_h) \div 2)
        right   == left + Min(target_w, w)
        bottom  == top + Min(target_h, h)
        cropped == Crop(im, left, top, right, bottom)
    IN  IF <<cropped.w, cropped.h>> # <<target_w, target_h>>
        THEN LET out == NewImage(target_w, target_h, 0)
                 ox  == (target_w - cropped.w) \div 2
                 oy  == (target_h - cropped.h) \div 2
             IN  Paste(out, cropped, ox, oy)
        ELSE cropped

THRESHOLD == 128

\* g.point(lambda p: 255 if p >= threshold else 0, mode="1")
Binarize(im, threshold) ==
    [p \in DOMAIN im.px |-> IF im.px[p] >= threshold THEN 255 ELSE 0]

RECURSIVE Pow2(_)
Pow2(n) == IF n = 0 THEN 1 ELSE 2 * Pow2(n - 1)

\* the inner loop with the flush of the partial byte forgotten
RECURSIVE PackRowNoFlush(_, _, _, _, _, _, _)
PackRowNoFlush(pixels, w, y, x, byte, bit_count, out) ==
    IF x >= w
    THEN out
    ELSE LET bit == IF pixels[<<x, y>>] # 0 THEN 1 ELSE 0
             b   == byte * 2 + bit
         IN  IF bit_count + 1 = 8
             THEN PackRowNoFlush(pixels, w, y, x + 1, 0, 0, Append(out, b % 256))
             ELSE PackRowNoFlush(pixels, w, y, x + 1, b, bit_count + 1, out)

\* the inner loop over x of one row y, and the flush of the partial byte
RECURSIVE PackRow(_, _, _, _, _, _, _)
PackRow(pixels, w, y, x, byte, bit_count, out) ==
    IF x >= w
    THEN IF bit_count # 0
         THEN Append(out, (byte * Pow2(8 - bit_count)) % 256)
         ELSE out
    ELSE LET bit == IF pixels[<<x, y>>] # 0 THEN 1 ELSE 0
             b   == byte * 2 + bit
         IN  IF bit_count + 1 = 8
             THEN PackRow(pixels, w, y, x + 1, 0, 0, Append(out, b % 256))
             ELSE PackRow(pixels, w, y, x + 1, b, bit_count + 1, out)

\* the outer loop over y: byte = 0 and bit_count = 0 at the start of each row
RECURSIVE PackRows(_, _, _, _, _)
PackRows(pixels, w, h, y, out) ==
    IF y >= h
    THEN out
    ELSE PackRows(pixels, w, h, y + 1, PackRow(pixels, w, y, 0, 0, 0, out))

\* binarization with a strict comparison
image_to_1bpp_strict(im, w, h, threshold) ==
    PackRows([p \in DOMAIN im.px |-> IF im.px[p] > threshold THEN 255 ELSE 0],
             w, h, 0, <<>>)

image_to_1bpp_horizontal_bytes(im, w, h, threshold) ==
    PackRows(Binarize(im, threshold), w, h, 0, <<>>)

HexChars ==
    <<"0", "1", "2", "3", "4", "5", "6", "7", "8", "9", "A", "B", "C", "D", "E", "F">>

\* f"0x{b:02X}" for a byte b
HexToken(b) == <<"0", "x", HexChars[(b \div 16) + 1], HexChars[(b % 16) + 1]>>

\* bytes_to_c_array(data, columns=12): the lines of the array literal, each
\* the "0x.." tokens joined by ", " on it
Columns == 12
bytes_to_c_array(data) ==
    LET parts  == [i \in 1 .. Len(data) |-> HexToken(data[i])]
        nlines == (Len(parts) + Columns - 1) \div Columns
    IN  [k \in 1 .. nlines |->
            SubSeq(parts, (k - 1) * Columns + 1, Min(k * Columns, Len(parts)))]

\* bitmaps.h with the pointer table in the reverse of the frame order
generate_bitmaps_h_reversed_table(frame_paths, w, h, per_frame_bytes) ==
    LET n == Len(frame_paths)
        arrays == [idx \in 1 .. n |->
                     [ident |-> FrameIdent(frame_paths[idx], idx - 1),
                      body  |-> bytes_to_c_array(per_frame_bytes[idx])]]
    IN  [arrays      |-> arrays,
         bmpArray    |-> [i \in 1 .. n |-> arrays[n + 1 - i].ident],
         frameCount  |-> DecimalOf(n),
         frameWidth  |-> DecimalOf(w),
         frameHeight |-> DecimalOf(h)]

\* generate_bitmaps_h: one named array per frame (its name and the lines of
\* its literal), the pointer table bmpArray (the names, in order), and the
\* text of frameCount, frameWidth and frameHeight
generate_bitmaps_h(frame_paths, w, h, per_frame_bytes) ==
    LET arrays == [idx \in 1 .. Len(frame_paths) |->
                     [ident |-> FrameIdent(frame_paths[idx], idx - 1),
                      body  |-> bytes_to_c_array(per_frame_bytes[idx])]]
    IN  [arrays      |-> arrays,
         bmpArray    |-> [i \in 1 .. Len(arrays) |-> arrays[i].ident],
         frameCount  |-> DecimalOf(Len(frame_paths)),
         frameWidth  |-> DecimalOf(w),
         frameHeight |-> DecimalOf(h)]

\* generate_sketch_ino: SCREEN_WIDTH, SCREEN_HEIGHT and the timing section
\* (the includes, pins and constructor depend on board and protocol alone
\* and are left out)
generate_sketch_ino(w, h, uniform_timing, uniform_delay_ms, per_frame_delays) ==
    [SCREEN_WIDTH  |-> DecimalOf(w),
     SCREEN_HEIGHT |-> DecimalOf(h),
     timing        |-> sketch_timing(uniform_timing, uniform_delay_ms, per_frame_delays)]

----------------------------------------------------------------------------
(* SpecPack: the bit packer on frames of 0..MaxW x 0..MaxH                 *)

PackQuiet ==
    /\ pk_im = NoImage /\ pk_w = 0 /\ pk_h = 0
    /\ pk_threshold = THRESHOLD /\ pk_out = <<>> /\ pk_pc = "idle"

CropQuiet ==
    /\ cc_im = NoImage /\ cc_target_w = 0 /\ cc_target_h = 0
    /\ cc_out = NoImage /\ cc_out2 = NoImage /\ cc_pc = "idle"

SortQuiet == so_files = <<>> /\ so_sorted = <<>> /\ so_pc = "idle"

IdentQuiet == id_path = <<>> /\ id_idx = 0 /\ id_ident = <<>> /\ id_pc = "idle"

NoTiming == [uniform |-> TRUE, frameDelayMs |-> <<>>, frameDelaysMs |-> <<>>]

SketchQuiet ==
    /\ sk_frameCount = 0 /\ sk_timing = NoTiming /\ sk_millis = 0
    /\ sk_lastFrameTime = 0 /\ sk_currentFrame = 0 /\ sk_shown = -1
    /\ sk_draws = 0 /\ sk_pc = "idle"

\* no text emitted
NoText == <<>>

GenQuiet ==
    /\ g_uploads = <<>> /\ g_W = 0 /\ g_H = 0 /\ g_uniform_timing = TRUE
    /\ g_uniform_delay_ms = 0 /\ g_mismatch_mode = "" /\ g_wanted = <<>>
    /\ g_frame_files = <<>> /\ g_per_frame_delays = <<>> /\ g_loaded_imgs = <<>>
    /\ g_mismatches = <<>> /\ g_reported = <<>> /\ g_frame_bytes = <<>>
    /\ g_delays = <<>> /\ g_bitmaps_h = NoText /\ g_sketch_ino = NoText
    /\ g_downloads = {} /\ g_pc = "idle"

PackInit ==
    /\ CropQuiet /\ SortQuiet /\ IdentQuiet /\ SketchQuiet /\ GenQuiet
    /\ pk_w \in 0 .. MaxW
    /\ pk_h \in 0 .. MaxH
    /\ pk_im \in LitImages(pk_w, pk_h)
    /\ pk_threshold \in Thresholds
    /\ pk_out = <<>>
    /\ pk_pc = "call"

Pack ==
    /\ pk_pc = "call"
    /\ pk_out' = image_to_1bpp_horizontal_bytes(pk_im, pk_w, pk_h, pk_threshold)
    /\ pk_pc' = "done"
    /\ UNCHANGED <<pk_im, pk_w, pk_h, pk_threshold>>
    /\ UNCHANGED <<cc_vars, so_vars, id_vars, sk_vars, g_vars>>

PackNext == Pack

SpecPack == PackInit /\ [][PackNext]_vars

----------------------------------------------------------------------------
(* Claims about the bit packer                                             *)

\* bit k (0 = least significant) of byte b
BitOf(b, k) == (b \div Pow2(k)) % 2

\* bytes per row: ceil(w / 8)
Stride(w) == (w + 7) \div 8

\* row y of im as an image of height 1
RowImage(im, y) ==
    [w |-> im.w, h |-> 1, px |-> [p \in Coords(im.w, 1) |-> im.px[<<p[1], y>>]]]

\* C1: once packed, bit (7 - x mod 8) of byte y*ceil(w/8) + floor(x/8) is 1
\* exactly when pixel (x, y) has intensity >= threshold, and the low-order
\* padding bits of the last byte of a row are 0.
C1_PackedBitsMatchPixels ==
    pk_pc = "done" =>
        /\ \A i \in 1 .. Len(pk_out) : pk_out[i] \in 0 .. 255
        /\ \A p \in Coords(pk_w, pk_h) :
              LET x == p[1]
                  y == p[2]
                  i == y * Stride(pk_w) + (x \div 8)
              IN  /\ i + 1 \in 1 .. Len(pk_out)
                  /\ (BitOf(pk_out[i + 1], 7 - (x % 8)) = 1)
                        <=> (pk_im.px[p] >= pk_threshold)
        /\ pk_w % 8 # 0 =>
              \A y \in 0 .. pk_h - 1 : \A k \in 0 .. 7 - (pk_w % 8) :
                  BitOf(pk_out[(y + 1) * Stride(pk_w)], k) = 0

\* a packed frame of two rows of more than one byte with padding, holding a
\* pixel exactly at the threshold (on) and a pixel just below it (off)
C1_Witness ==
    /\ pk_pc = "done" /\ pk_w > 8 /\ pk_w % 8 # 0 /\ pk_h >= 2
    /\ \E p \in Coords(pk_w, pk_h) :
          /\ p[1] >= 8 /\ p[2] >= 1 /\ pk_im.px[p] = pk_threshold
          /\ BitOf(pk_out[p[2] * Stride(pk_w) + 2], 7 - (p[1] % 8)) = 1
    /\ \E p \in Coords(pk_w, pk_h) : pk_im.px[p] = pk_threshold - 1

\* C2: the packed sequence is h * ceil(w/8) bytes long, and the bytes of row y
\* are those of row y packed on its own: no byte holds bits of two rows.
C2_PackedLength ==
    pk_pc = "done" =>
        /\ Len(pk_out) = pk_h * Stride(pk_w)
        /\ \A y \in 0 .. pk_h - 1 :
              SubSeq(pk_out, y * Stride(pk_w) + 1, (y + 1) * Stride(pk_w))
                = image_to_1bpp_horizontal_bytes(RowImage(pk_im, y), pk_w, 1,
                                                 pk_threshold)

\* two rows of 9 pixels packed into 4 bytes, the second row lit at its start
C2_Witness ==
    /\ pk_pc = "done" /\ pk_w = 9 /\ pk_h = 2 /\ Len(pk_out) = 4
    /\ pk_out[2] = 0 /\ pk_out[3] >= 128

----------------------------------------------------------------------------
(* SpecCrop: center_crop on sources of 1..MaxSrc a side and targets of     *)
(* 1..MaxTarget a side, applied once and then again to its own result      *)

CropInit ==
    /\ PackQuiet /\ SortQuiet /\ IdentQuiet /\ SketchQuiet /\ GenQuiet
    /\ \E w \in 1 .. MaxSrc, h \in 1 .. MaxSrc, seed \in Seeds :
           cc_im = NumberedImage(w, h, seed)
    /\ cc_target_w \in 1 .. MaxTarget
    /\ cc_target_h \in 1 .. MaxTarget
    /\ cc_out = NoImage
    /\ cc_out2 = NoImage
    /\ cc_pc = "call"

CropOnce ==
    /\ cc_pc = "call"
    /\ cc_out' = center_crop(cc_im, cc_target_w, cc_target_h)
    /\ cc_pc' = "once"
    /\ UNCHANGED <<cc_im, cc_target_w, cc_target_h, cc_out2>>
    /\ UNCHANGED <<pk_vars, so_vars, id_vars, sk_vars, g_vars>>

CropAgain ==
    /\ cc_pc = "once"
    /\ cc_out2' = center_crop(cc_out, cc_target_w, cc_target_h)
    /\ cc_pc' = "twice"
    /\ UNCHANGED <<cc_im, cc_target_w, cc_target_h, cc_out>>
    /\ UNCHANGED <<pk_vars, so_vars, id_vars, sk_vars, g_vars>>

CropNext == CropOnce \/ CropAgain

SpecCrop == CropInit /\ [][CropNext]_vars

\* the source coordinate shown at output coordinate c on an axis with source
\* length s and target length t: the crop offset floor((s - t) / 2) where the
\* source is larger, the paste offset floor((t - s) / 2) where it is smaller
SourceCoord(c, s, t) ==
    IF s >= t THEN c + ((s - t) \div 2) ELSE c - ((t - s) \div 2)

\* C6: center_crop returns exactly target_w x target_h; each output pixel is
\* the source pixel of the centered region or 0 in the padding; a source of
\* the target size comes back pixel for pixel; a second call changes nothing.
C6_CenterCrop ==
    /\ cc_pc \in {"once", "twice"} =>
          /\ cc_out.w = cc_target_w /\ cc_out.h = cc_target_h
          /\ DOMAIN cc_out.px = Coords(cc_target_w, cc_target_h)
          /\ \A p \in Coords(cc_target_w, cc_target_h) :
                LET sx == SourceCoord(p[1], cc_im.w, cc_target_w)
                    sy == SourceCoord(p[2], cc_im.h, cc_target_h)
                IN  cc_out.px[p] =
                      IF sx \in 0 .. cc_im.w - 1 /\ sy \in 0 .. cc_im.h - 1
                      THEN cc_im.px[<<sx, sy>>]
                      ELSE 0
          /\ (cc_im.w = cc_target_w /\ cc_im.h = cc_target_h) => cc_out = cc_im
    /\ cc_pc = "twice" => cc_out2 = cc_out

\* cropped on the x axis by an odd excess and padded on the y axis by an odd
\* deficit, with a source pixel and a padding pixel in the result, and the
\* second call made
C6_Witness ==
    /\ cc_pc = "twice"
    /\ cc_im.w > cc_target_w /\ (cc_im.w - cc_target_w) % 2 = 1
    /\ cc_im.h < cc_target_h /\ (cc_target_h - cc_im.h) % 2 = 1
    /\ \E p \in DOMAIN cc_out.px : cc_out.px[p] = 0
    /\ \E p \in DOMAIN cc_out.px : cc_out.px[p] # 0

----------------------------------------------------------------------------
(* streamlit_app.py: sort_uploads                                          *)

\* 10**18, the key of a name without digits
NoDigitKey == <<1>> \o [i \in 1 .. 18 |-> 0]

\* the tuple (n if n is not None else 10**18, f.name.lower()) of a file
SortKey(f) ==
    LET n == find_first_int(f.name)
    IN  <<IF n # None THEN n ELSE NoDigitKey, Lower(f.name)>>

\* a < b for two keys, as Python compares tuples
KeyLess(a, b) ==
    \/ IntLess(a[1], b[1])
    \/ a[1] = b[1] /\ StrLess(a[2], b[2])

\* list.sort is stable: t goes behind every element that is not greater
RECURSIVE InsertStable(_, _)
InsertStable(sorted, t) ==
    IF sorted = <<>> THEN <<t>>
    ELSE IF KeyLess(t[1], sorted[1][1])
         THEN <<t>> \o sorted
         ELSE <<sorted[1]>> \o InsertStable(Tail(sorted), t)

RECURSIVE SortScored(_, _)
SortScored(scored, sorted) ==
    IF scored = <<>> THEN sorted
    ELSE SortScored(Tail(scored), InsertStable(sorted, scored[1]))

sort_uploads(files) ==
    LET scored == [i \in 1 .. Len(files) |-> <<SortKey(files[i]), files[i]>>]
        sorted == SortScored(scored, <<>>)
    IN  [i \in 1 .. Len(sorted) |-> sorted[i][2]]

----------------------------------------------------------------------------
(* SpecSort: sort_uploads on uploads of at most MaxSortFiles files         *)

Ext == <<".", "b", "m", "p">>

\* names without digits, names with a small number, and names whose number
\* is 10**18 and 2 * 10**18
SortNames ==
    { <<"a">> \o Ext, <<"B">> \o Ext, <<"2">> \o Ext, <<"1", "0">> \o Ext,
      <<"x", "7">> \o Ext, <<"1">> \o Zeros(18) \o Ext,
      <<"2">> \o Zeros(18) \o Ext }

RECURSIVE SeqsUpTo(_, _)
SeqsUpTo(S, n) ==
    IF n = 0 THEN {<<>>}
    ELSE LET shorter == SeqsUpTo(S, n - 1)
         IN  shorter \cup { Append(q, e) : q \in shorter, e \in S }

SortInit ==
    /\ PackQuiet /\ CropQuiet /\ IdentQuiet /\ SketchQuiet /\ GenQuiet
    /\ \E names \in SeqsUpTo(SortNames, MaxSortFiles) :
           so_files = [i \in 1 .. Len(names) |-> [name |-> names[i], id |-> i]]
    /\ so_sorted = <<>>
    /\ so_pc = "call"

Sort ==
    /\ so_pc = "call"
    /\ so_sorted' = sort_uploads(so_files)
    /\ so_pc' = "done"
    /\ UNCHANGED so_files
    /\ UNCHANGED <<pk_vars, cc_vars, id_vars, sk_vars, g_vars>>

SortNext == Sort

SpecSort == SortInit /\ [][SortNext]_vars

HasDigit(s) ==
    \E i \in 1 .. Len(s) : s[i] \in {"0", "1", "2", "3", "4", "5", "6", "7", "8", "9"}

\* C3: in the sequence sort_uploads returns, a file whose name holds a digit
\* comes before every file whose name holds none.
C3_DigitNamesFirst ==
    so_pc = "done" =>
        \A i, j \in 1 .. Len(so_sorted) :
            (HasDigit(so_sorted[i].name) /\ ~HasDigit(so_sorted[j].name)) => i < j

----------------------------------------------------------------------------
(* SpecIdent: the array name generate_bitmaps_h gives a frame, for paths   *)
(* of at most MaxPathLen characters                                        *)

\* a letter of each case, a digit, the underscore, the dot of an extension,
\* the separator of a directory, and punctuation
PathChars == {"a", "Z", "7", "_", ".", "/", "!"}

\* frame indices of one, two, three and four digits
FrameIndices == {0, 42, 999, 1000}

IdentInit ==
    /\ PackQuiet /\ CropQuiet /\ SortQuiet /\ SketchQuiet /\ GenQuiet
    /\ id_path \in SeqsUpTo(PathChars, MaxPathLen)
    /\ id_idx \in FrameIndices
    /\ id_ident = <<>>
    /\ id_pc = "call"

NameFrame ==
    /\ id_pc = "call"
    /\ id_ident' = FrameIdent(id_path, id_idx)
    /\ id_pc' = "done"
    /\ UNCHANGED <<id_path, id_idx>>
    /\ UNCHANGED <<pk_vars, cc_vars, so_vars, sk_vars, g_vars>>

IdentNext == NameFrame

SpecIdent == IdentInit /\ [][IdentNext]_vars

Letters ==
    { "A", "B", "C", "D", "E", "F", "G", "H", "I", "J", "K", "L", "M", "N", "O",
      "P", "Q", "R", "S", "T", "U", "V", "W", "X", "Y", "Z", "a", "b", "c", "d",
      "e", "f", "g", "h", "i", "j", "k", "l", "m", "n", "o", "p", "q", "r", "s",
      "t", "u", "v", "w", "x", "y", "z" }
DigitChars == {"0", "1", "2", "3", "4", "5", "6", "7", "8", "9"}

\* s matches [A-Za-z_][A-Za-z0-9_]*
IsCIdentifier(s) ==
    /\ s # <<>>
    /\ s[1] \in Letters \cup {"_"}
    /\ \A i \in 2 .. Len(s) : s[i] \in Letters \cup DigitChars \cup {"_"}

\* C9: for every path and frame index the emitted array name is non-empty
\* and matches [A-Za-z_][A-Za-z0-9_]*.
C9_IdentIsValid ==
    id_pc = "done" => IsCIdentifier(id_ident)

\* a path with a directory, whose stem starts with a digit and holds
\* punctuation: the name is prefixed and ends with the 3-digit index
C9_Witness ==
    /\ id_pc = "done"
    /\ id_path = <<"a", "/", "7", "!">>
    /\ id_idx = 42
    /\ id_ident = <<"i", "m", "g", "_", "7", "_", "_", "0", "4", "2">>

----------------------------------------------------------------------------
(* SpecSketch: the firmware generate_sketch_ino emits, on a board.         *)
(* millis() never decreases and stays below 2^32 here, so the unsigned     *)
(* difference now - lastFrameTime is the plain difference.                 *)

\* delays a user can type into the number inputs (min_value=0, no maximum):
\* 65537 does not fit the sketch's uint16_t
SketchDelays == {0, 1, 2, 65537}

\* the delay lists of n entries over SketchDelays
DelayLists(n) == [1 .. n -> SketchDelays]

\* the sketch is generated for 1 .. MaxSketchFrames frames, with uniform or
\* per-frame timing, and flashed; millis() is 0 at reset
SketchInit ==
    /\ PackQuiet /\ CropQuiet /\ SortQuiet /\ IdentQuiet /\ GenQuiet
    /\ sk_frameCount \in 1 .. MaxSketchFrames
    /\ \E uniform_timing \in BOOLEAN, uniform_delay_ms \in SketchDelays,
          per_frame_delays \in DelayLists(sk_frameCount) :
           sk_timing = sketch_timing(uniform_timing, uniform_delay_ms, per_frame_delays)
    /\ sk_millis = 0
    /\ sk_lastFrameTime = 0
    /\ sk_currentFrame = 0
    /\ sk_shown = -1
    /\ sk_draws = 0
    /\ sk_pc = "setup"

\* millis() advances
Tick ==
    /\ sk_pc \in {"setup", "running"}
    /\ \E d \in 1 .. MaxTick :
          /\ sk_millis + d <= MaxMillis
          /\ sk_millis' = sk_millis + d
    /\ UNCHANGED <<sk_frameCount, sk_timing, sk_lastFrameTime, sk_currentFrame,
                   sk_shown, sk_draws, sk_pc>>
    /\ UNCHANGED <<pk_vars, cc_vars, so_vars, id_vars, g_vars>>

\* setup() when display.begin fails: for(;;) {}
SetupHalt ==
    /\ sk_pc = "setup"
    /\ sk_pc' = "halted"
    /\ UNCHANGED <<sk_frameCount, sk_timing, sk_millis, sk_lastFrameTime,
                   sk_currentFrame, sk_shown, sk_draws>>
    /\ UNCHANGED <<pk_vars, cc_vars, so_vars, id_vars, g_vars>>

\* setup() when display.begin succeeds: frame 0 is drawn and shown
Setup ==
    /\ sk_pc = "setup"
    /\ sk_shown' = 0
    /\ sk_draws' = sk_draws + 1
    /\ sk_pc' = "running"
    /\ UNCHANGED <<sk_frameCount, sk_timing, sk_millis, sk_lastFrameTime,
                   sk_currentFrame>>
    /\ UNCHANGED <<pk_vars, cc_vars, so_vars, id_vars, g_vars>>

\* one call of loop() that returns at once: frameCount <= 1
LoopSingleFrame ==
    /\ sk_pc = "running"
    /\ sk_frameCount <= 1
    /\ UNCHANGED <<sk_vars>>
    /\ UNCHANGED <<pk_vars, cc_vars, so_vars, id_vars, g_vars>>

\* one call of loop() with frameCount > 1, at now = millis()
Loop ==
    /\ sk_pc = "running"
    /\ sk_frameCount > 1
    /\ sk_draws < MaxDraws
    /\ LET now    == sk_millis
           waitMs == WaitMs(sk_timing, sk_currentFrame)
       IN  IF now - sk_lastFrameTime >= waitMs
           THEN /\ sk_shown' = sk_currentFrame
                /\ sk_draws' = sk_draws + 1
                /\ sk_currentFrame' = (sk_currentFrame + 1) % sk_frameCount
                /\ sk_lastFrameTime' = now
           ELSE UNCHANGED <<sk_shown, sk_draws, sk_currentFrame, sk_lastFrameTime>>
    /\ UNCHANGED <<sk_frameCount, sk_timing, sk_millis, sk_pc>>
    /\ UNCHANGED <<pk_vars, cc_vars, so_vars, id_vars, g_vars>>

SketchNext == Tick \/ SetupHalt \/ Setup \/ LoopSingleFrame \/ Loop

SpecSketch == SketchInit /\ [][SketchNext]_vars

\* the delay the generated sketch was given for frame i (0-based)
ConfiguredDelay(i) ==
    IF sk_timing.uniform
    THEN ParseDecimal(sk_timing.frameDelayMs)
    ELSE ParseDecimal(sk_timing.frameDelaysMs[i + 1])

\* C5: currentFrame stays in 0 .. frameCount-1, and once the sketch runs, a
\* step changes currentFrame, lastFrameTime or the display only when
\* now - lastFrameTime >= the delay configured for the current frame and
\* frameCount > 1; it then advances currentFrame modulo frameCount and sets
\* lastFrameTime to now.
C5_SwapOnlyWhenDelayElapsed ==
    [][ /\ sk_currentFrame' \in 0 .. sk_frameCount - 1
        /\ (/\ sk_pc = "running"
            /\ \/ sk_currentFrame' # sk_currentFrame
               \/ sk_lastFrameTime' # sk_lastFrameTime
               \/ sk_draws' # sk_draws
               \/ sk_shown' # sk_shown)
           => /\ sk_frameCount > 1
              /\ sk_millis - sk_lastFrameTime >= ConfiguredDelay(sk_currentFrame)
              /\ sk_currentFrame' = (sk_currentFrame + 1) % sk_frameCount
              /\ sk_lastFrameTime' = sk_millis ]_vars

\* C10: with frameCount >= 2, setup shows frame 0 and the frame shown after
\* the k-th swap is frame k mod frameCount.
C10_SwapShowsNextFrame ==
    (sk_pc = "running" /\ sk_frameCount >= 2) =>
        sk_shown = (sk_draws - 1) % sk_frameCount

----------------------------------------------------------------------------
(* streamlit_app.py: the script from the widgets to the downloads          *)

StopMode == "Stop and show mismatch list"
AutoMode == "Auto-crop/pad to selected resolution"

\* Image.open(io.BytesIO(f.read())): an upload f decodes to its image
OpenImage(f) == GenImage(f.w, f.h, f.seed)

\* the (f.name, im.size) of the frames whose size is not (W, H), in order
RECURSIVE Mismatches(_, _, _)
Mismatches(files, W, H) ==
    IF files = <<>> THEN <<>>
    ELSE LET f == files[1]
         IN  (IF <<f.w, f.h>> # <<W, H>> THEN << <<f.name, <<f.w, f.h>>>> >> ELSE <<>>)
               \o Mismatches(Tail(files), W, H)

\* a stop that is never taken
MustStopNever(mismatches, mismatch_mode) == FALSE

\* if mismatches and mismatch_mode == "Stop and show mismatch list"
MustStop(mismatches, mismatch_mode) ==
    mismatches # <<>> /\ mismatch_mode = StopMode

\* the lines written before st.stop(): mismatches[:20] and, past 20, how
\* many more there are
ReportCap == 20
Report(mismatches) ==
    [lines |-> SubSeq(mismatches, 1, Min(ReportCap, Len(mismatches))),
     more  |-> IF Len(mismatches) > ReportCap THEN Len(mismatches) - ReportCap ELSE 0]

\* the auto-crop/pad of every image when there are mismatches
Normalized(loaded_imgs, mismatches, mismatch_mode, W, H) ==
    IF mismatches # <<>> /\ mismatch_mode = AutoMode
    THEN [i \in 1 .. Len(loaded_imgs) |-> center_crop(loaded_imgs[i], W, H)]
    ELSE loaded_imgs

\* the packing loop: an image not of size (W, H) is cropped first
PackFramesOf(loaded_imgs, W, H) ==
    [i \in 1 .. Len(loaded_imgs) |->
        LET im == IF <<loaded_imgs[i].w, loaded_imgs[i].h>> # <<W, H>>
                  THEN center_crop(loaded_imgs[i], W, H)
                  ELSE loaded_imgs[i]
        IN  image_to_1bpp_horizontal_bytes(im, W, H, THRESHOLD)]

\* delays: uniform, or the per-frame list, or [uniform_delay_ms] * frame_count
\* when that list is not frame_count long
DelaysOf(uniform_timing, uniform_delay_ms, per_frame_delays, frame_count) ==
    IF uniform_timing
    THEN [i \in 1 .. frame_count |-> uniform_delay_ms]
    ELSE IF Len(per_frame_delays) # frame_count
         THEN [i \in 1 .. frame_count |-> uniform_delay_ms]
         ELSE per_frame_delays

----------------------------------------------------------------------------
(* SpecGen: one run of the script, with at most MaxGenFrames uploads       *)

\* RESOLUTIONS = ["128x64", "128x32"], scaled down
RESOLUTIONS == {<<GenW, GenH>>, <<GenW, GenH \div 2>>}

\* BMP files a user may upload: two of the larger resolution, one of the
\* smaller, one larger than both, with names that sort_uploads reorders
GenFiles ==
    { [name |-> <<"2">> \o Ext,      w |-> GenW,     h |-> GenH,        seed |-> 0],
      [name |-> <<"1", "0">> \o Ext, w |-> GenW,     h |-> GenH,        seed |-> 90],
      [name |-> <<"a">> \o Ext,      w |-> GenW,     h |-> GenH \div 2, seed |-> 40],
      [name |-> <<"B", "7">> \o Ext, w |-> GenW + 1, h |-> GenH + 1,    seed |-> 170] }

\* values of the number inputs
GenDelays == {0, 300}

GenInit ==
    /\ PackQuiet /\ CropQuiet /\ SortQuiet /\ IdentQuiet /\ SketchQuiet
    /\ \E files \in SeqsUpTo(GenFiles, MaxGenFrames) :
           g_uploads = [i \in 1 .. Len(files) |->
                          [name |-> files[i].name, id |-> i, w |-> files[i].w,
                           h |-> files[i].h, seed |-> files[i].seed]]
    /\ \E res \in RESOLUTIONS : g_W = res[1] /\ g_H = res[2]
    /\ g_uniform_timing \in BOOLEAN
    /\ g_uniform_delay_ms \in GenDelays
    /\ g_mismatch_mode \in {StopMode, AutoMode}
    /\ g_wanted = <<>> /\ g_frame_files = <<>> /\ g_per_frame_delays = <<>>
    /\ g_loaded_imgs = <<>> /\ g_mismatches = <<>> /\ g_reported = <<>>
    /\ g_frame_bytes = <<>> /\ g_delays = <<>> /\ g_bitmaps_h = NoText
    /\ g_sketch_ino = NoText /\ g_downloads = {} /\ g_pc = "start"

\* the script down to the button: the uploads are sorted, and with per-frame
\* timing one number input per frame, in frame order, holds the delay the
\* user wants for the upload it is labelled with
RunScript ==
    /\ g_pc = "start"
    /\ g_frame_files' = sort_uploads(g_uploads)
    /\ IF Len(g_frame_files') # 0 /\ ~g_uniform_timing
       THEN \E wanted \in [1 .. Len(g_uploads) -> GenDelays] :
               /\ g_wanted' = wanted
               /\ g_per_frame_delays' =
                     [i \in 1 .. Len(g_frame_files') |-> wanted[g_frame_files'[i].id]]
       ELSE /\ g_wanted' = <<>>
            /\ g_per_frame_delays' = <<>>
    /\ g_pc' = "ready"
    /\ UNCHANGED <<g_inputs, g_loaded_imgs, g_mismatches, g_reported,
                   g_frame_bytes, g_delays, g_bitmaps_h, g_sketch_ino, g_downloads>>
    /\ UNCHANGED <<pk_vars, cc_vars, so_vars, id_vars, sk_vars>>

\* "Generate Code" is clicked (it is disabled with no frames): the frames
\* are opened and those not of size (W, H) listed
LoadFrames ==
    /\ g_pc = "ready"
    /\ Len(g_frame_files) # 0
    /\ g_loaded_imgs' = [i \in 1 .. Len(g_frame_files) |-> OpenImage(g_frame_files[i])]
    /\ g_mismatches' = Mismatches(g_frame_files, g_W, g_H)
    /\ g_pc' = "loaded"
    /\ UNCHANGED <<g_inputs, g_wanted, g_frame_files, g_per_frame_delays,
                   g_reported, g_frame_bytes, g_delays, g_bitmaps_h,
                   g_sketch_ino, g_downloads>>
    /\ UNCHANGED <<pk_vars, cc_vars, so_vars, id_vars, sk_vars>>

\* st.error, the list of mismatches, st.stop()
StopOnMismatch ==
    /\ g_pc = "loaded"
    /\ MustStop(g_mismatches, g_mismatch_mode)
    /\ g_reported' = Report(g_mismatches)
    /\ g_pc' = "stopped"
    /\ UNCHANGED <<g_inputs, g_wanted, g_frame_files, g_per_frame_delays,
                   g_loaded_imgs, g_mismatches, g_frame_bytes, g_delays,
                   g_bitmaps_h, g_sketch_ino, g_downloads>>
    /\ UNCHANGED <<pk_vars, cc_vars, so_vars, id_vars, sk_vars>>

\* the auto-crop/pad and the packing loop
PackFrames ==
    /\ g_pc = "loaded"
    /\ ~MustStop(g_mismatches, g_mismatch_mode)
    /\ g_loaded_imgs' = Normalized(g_loaded_imgs, g_mismatches, g_mismatch_mode, g_W, g_H)
    /\ g_frame_bytes' = PackFramesOf(g_loaded_imgs', g_W, g_H)
    /\ g_pc' = "packed"
    /\ UNCHANGED <<g_inputs, g_wanted, g_frame_files, g_per_frame_delays,
                   g_mismatches, g_reported, g_delays, g_bitmaps_h,
                   g_sketch_ino, g_downloads>>
    /\ UNCHANGED <<pk_vars, cc_vars, so_vars, id_vars, sk_vars>>

BuildDelays ==
    /\ g_pc = "packed"
    /\ g_delays' = DelaysOf(g_uniform_timing, g_uniform_delay_ms,
                            g_per_frame_delays, Len(g_frame_files))
    /\ g_pc' = "timed"
    /\ UNCHANGED <<g_inputs, g_wanted, g_frame_files, g_per_frame_delays,
                   g_loaded_imgs, g_mismatches, g_reported, g_frame_bytes,
                   g_bitmaps_h, g_sketch_ino, g_downloads>>
    /\ UNCHANGED <<pk_vars, cc_vars, so_vars, id_vars, sk_vars>>

\* bitmaps_h = generate_bitmaps_h([f.name for f in frame_files], W, H, frame_bytes)
EmitBitmaps ==
    /\ g_pc = "timed"
    /\ g_bitmaps_h' =
          generate_bitmaps_h([i \in 1 .. Len(g_frame_files) |-> g_frame_files[i].name],
                             g_W, g_H, g_frame_bytes)
    /\ g_pc' = "bitmaps"
    /\ UNCHANGED <<g_inputs, g_wanted, g_frame_files, g_per_frame_delays,
                   g_loaded_imgs, g_mismatches, g_reported, g_frame_bytes,
                   g_delays, g_sketch_ino, g_downloads>>
    /\ UNCHANGED <<pk_vars, cc_vars, so_vars, id_vars, sk_vars>>

\* sketch_ino = generate_sketch_ino(..., per_frame_delays=delays)
EmitSketch ==
    /\ g_pc = "bitmaps"
    /\ g_sketch_ino' = generate_sketch_ino(g_W, g_H, g_uniform_timing,
                                           g_uniform_delay_ms, g_delays)
    /\ g_pc' = "sketch"
    /\ UNCHANGED <<g_inputs, g_wanted, g_frame_files, g_per_frame_delays,
                   g_loaded_imgs, g_mismatches, g_reported, g_frame_bytes,
                   g_delays, g_bitmaps_h, g_downloads>>
    /\ UNCHANGED <<pk_vars, cc_vars, so_vars, id_vars, sk_vars>>

\* the tabs and the three download buttons
OfferDownloads ==
    /\ g_pc = "sketch"
    /\ g_downloads' = {"sketch.ino", "bitmaps.h", "oled_generator_output.zip"}
    /\ g_pc' = "done"
    /\ UNCHANGED <<g_inputs, g_wanted, g_frame_files, g_per_frame_delays,
                   g_loaded_imgs, g_mismatches, g_reported, g_frame_bytes,
                   g_delays, g_bitmaps_h, g_sketch_ino>>
    /\ UNCHANGED <<pk_vars, cc_vars, so_vars, id_vars, sk_vars>>

GenNext ==
    \/ RunScript
    \/ LoadFrames
    \/ StopOnMismatch
    \/ PackFrames
    \/ BuildDelays
    \/ EmitBitmaps
    \/ EmitSketch
    \/ OfferDownloads

SpecGen == GenInit /\ [][GenNext]_vars

----------------------------------------------------------------------------
(* Claims about a generation request                                       *)

\* the value of a "0x.." token
HexValue(token) ==
    LET v(c) == (CHOOSE k \in 1 .. 16 : HexChars[k] = c) - 1
    IN  16 * v(token[3]) + v(token[4])

\* the bytes an array literal holds, read line by line
RECURSIVE BytesOfLines(_)
BytesOfLines(lines) ==
    IF lines = <<>> THEN <<>>
    ELSE [i \in 1 .. Len(lines[1]) |-> HexValue(lines[1][i])] \o BytesOfLines(Tail(lines))

\* the packed bytes of upload f for the selected resolution
PackedFrameOf(f) ==
    LET im == OpenImage(f)
    IN  image_to_1bpp_horizontal_bytes(
            IF <<im.w, im.h>> = <<g_W, g_H>> THEN im ELSE center_crop(im, g_W, g_H),
            g_W, g_H, THRESHOLD)

\* C4: once both artifacts are emitted for n frames, the i-th array and the
\* i-th entry of bmpArray hold the packed bytes of the i-th frame of
\* sort_uploads' order, frameCount is n, and a per-frame delay array has n
\* entries, the i-th the delay wanted for that i-th frame.
C4_ArtifactsFollowFrameOrder ==
    g_pc \in {"sketch", "done"} =>
        LET order == sort_uploads(g_uploads)
            n     == Len(order)
            h     == g_bitmaps_h
            t     == g_sketch_ino.timing
        IN  /\ n >= 1
            /\ ParseDecimal(h.frameCount) = n
            /\ Len(h.arrays) = n
            /\ Len(h.bmpArray) = n
            /\ \A i \in 1 .. n :
                  /\ BytesOfLines(h.arrays[i].body) = PackedFrameOf(order[i])
                  /\ \A k \in 1 .. Len(h.arrays[i].body) :
                        Len(h.arrays[i].body[k]) \in 1 .. Columns
                  /\ h.bmpArray[i] = h.arrays[i].ident
                  /\ \A j \in 1 .. n : h.arrays[j].ident = h.arrays[i].ident => j = i
            /\ ~t.uniform =>
                  /\ Len(t.frameDelaysMs) = n
                  /\ \A i \in 1 .. n :
                        ParseDecimal(t.frameDelaysMs[i]) = g_wanted[order[i].id]

\* two frames uploaded in the reverse of their order, one of them cropped,
\* with different packed bytes on more than one line and different delays
C4_Witness ==
    /\ g_pc = "done"
    /\ Len(g_frame_files) = 2
    /\ g_frame_files[1].id = 2
    /\ g_mismatches # <<>>
    /\ ~g_uniform_timing
    /\ g_sketch_ino.timing.frameDelaysMs = << <<"3", "0", "0">>, <<"0">> >>
    /\ Len(g_bitmaps_h.arrays[1].body) >= 2
    /\ g_bitmaps_h.arrays[1].body # g_bitmaps_h.arrays[2].body

\* C7: with stop-on-mismatch and a frame whose size is not the target size,
\* the request reports the offending (name, size) pairs (at most ReportCap of
\* them, and how many more) and stops: no frame is packed, neither artifact
\* is emitted and no download is offered.
C7_StopBeforePacking ==
    LET bad == SelectSeq(sort_uploads(g_uploads),
                         LAMBDA f : f.w # g_W \/ f.h # g_H)
    IN  (g_mismatch_mode = StopMode /\ bad # <<>>) =>
            /\ g_pc \in {"start", "ready", "loaded", "stopped"}
            /\ g_frame_bytes = <<>>
            /\ g_bitmaps_h = NoText
            /\ g_sketch_ino = NoText
            /\ g_downloads = {}
            /\ g_pc = "stopped" =>
                  /\ g_reported.lines =
                        [k \in 1 .. Min(ReportCap, Len(bad)) |->
                            <<bad[k].name, <<bad[k].w, bad[k].h>>>>]
                  /\ g_reported.more = Len(bad) - Len(g_reported.lines)

\* a request of two frames, one of the target size and one not, stopped
\* with the one pair reported
C7_Witness ==
    /\ g_pc = "stopped"
    /\ Len(g_frame_files) = 2
    /\ Len(g_reported.lines) = 1
    /\ g_frame_bytes = <<>>

\* with per-frame timing the list of delays is as long as the list of
\* frames whenever delays are built: DelaysOf never takes its fallback
PerFrameDelaysMatchFrames ==
    (g_pc \notin {"start"} /\ ~g_uniform_timing /\ Len(g_frame_files) # 0) =>
        Len(g_per_frame_delays) = Len(g_frame_files)

====
